---- MODULE Spec2Model ----
(***************************************************************************)
(* ObjectQueue: a queue with set semantics over JavaScript reference       *)
(* values, built as a singly linked list whose "next" pointer is a symbol  *)
(* keyed property stored on each entry.                                    *)
(*                                                                         *)
(* The model follows the full variant of the class.  Entries are           *)
(* JavaScript values, so the model keeps what the language does with a     *)
(* property access: a read goes through the prototype chain, a write to an *)
(* object that cannot take the property throws a TypeError (class bodies   *)
(* are strict mode code) and leaves the statements before it executed.     *)
(***************************************************************************)
EXTENDS Integers, Sequences, FiniteSets, TLC

(***************************************************************************)
(* Bounds                                                                  *)
(***************************************************************************)
\* Longest input sequence handed to enqueueMany.
MaxMany == 2

\* Most entries one pass of the iterator is followed through.
MaxYield == 4

(***************************************************************************)
(* JavaScript values                                                       *)
(***************************************************************************)
Null == "null"

Undefined == "undefined"

\* Marks an object that has no own property for the queue's symbol.
Absent == "absent"

\* Value types: a boolean, a number, a string, a symbol.
Primitives == {"false", "123", "string", "symbol"}

\* Reference values: two plain objects, a function, an object created with
\* Object.create(a), and a frozen object.
Objects == {"a", "b", "fn", "c", "f"}

Values == Objects \cup Primitives \cup {Null, Undefined}

\* The typeof operator.
TypeOf(v) ==
  CASE v = "fn" -> "function"
    [] v \in Objects \ {"fn"} -> "object"
    [] v = Null -> "object"
    [] v = Undefined -> "undefined"
    [] v = "false" -> "boolean"
    [] v = "123" -> "number"
    [] v = "string" -> "string"
    [] v = "symbol" -> "symbol"

\* The prototype of an object, Null where the chain holds no entry.
Proto(o) == IF o = "c" THEN "a" ELSE Null

\* Objects that cannot be given a new property (Object.freeze,
\* Object.preventExtensions, Object.seal before the first enqueue).
Frozen == {"f"}

\* JavaScript truthiness of a link value: objects are truthy, null and
\* undefined are falsy.
Truthy(v) == v \in Objects

(***************************************************************************)
(* State                                                                   *)
(***************************************************************************)
VARIABLES
  head,    \* this.head
  tail,    \* this.tail
  size,    \* this.size
  _next,   \* own property entry[this._next] of every object, or Absent
  last,    \* the last call made and what it returned
  order,   \* history: entries whose enqueue returned true and that no
           \* dequeue, delete or clear has taken since, oldest first
  before,  \* history: the queue as it was when the last call was made
  iter,    \* the generator of the pass in progress: where it stands and
           \* its local variable next
  pass,    \* history: the entries the pass has yielded, and whether the
           \* queue changed since the pass was started
  other    \* a second queue instance: its head, tail, size and the link
           \* property it keeps on every object

vars == <<head, tail, size, _next, last, order, before, iter, pass, other>>

\* The queue as one value, for the operators below.
Queue == [head |-> head, tail |-> tail, size |-> size, link |-> _next]

\* Property read entry[this._next]: the own property, else the prototype's.
RECURSIVE Get(_, _)
Get(link, entry) ==
  IF link[entry] # Absent THEN link[entry]
  ELSE IF Proto(entry) # Null THEN Get(link, Proto(entry))
  ELSE Undefined

\* Whether the assignment entry[this._next] = v succeeds; it throws a
\* TypeError otherwise.  An existing own property of a frozen object is
\* read-only and a frozen object takes no new property.
Writable(link, entry) == entry \notin Frozen

\* The guard shared by has, getNext, enqueue and delete.
IsReference(entry) ==
  ~((TypeOf(entry) # "object" /\ TypeOf(entry) # "function") \/ entry = Null)

\* Outcome of a call: the queue afterwards, the value returned, and whether
\* the call ended by throwing instead of returning.
Return(q, r) == [q |-> q, ret |-> r, threw |-> FALSE]

Throw(q, r) == [q |-> q, ret |-> r, threw |-> TRUE]

(***************************************************************************)
(* Operations                                                              *)
(***************************************************************************)
has(q, entry) ==
  IF ~IsReference(entry) THEN Return(q, FALSE)
  ELSE Return(q, Get(q.link, entry) # Undefined)

getNext(q, entry) ==
  IF ~IsReference(entry) THEN Return(q, Null)
  ELSE LET v == Get(q.link, entry)
       IN  Return(q, IF Truthy(v) THEN v ELSE Null)

\* The body of enqueue for an entry that passed both checks: link it after
\* the tail.  Either assignment to a link property can throw.
append(q, entry) ==
  IF q.tail # Null /\ ~Writable(q.link, q.tail) THEN Throw(q, FALSE)
  ELSE LET q1 == IF q.tail = Null
                 THEN [q EXCEPT !.head = entry]
                 ELSE [q EXCEPT !.link[q.tail] = entry]
           q2 == [q1 EXCEPT !.tail = entry]
       IN  IF ~Writable(q2.link, entry) THEN Throw(q2, FALSE)
           ELSE Return([q2 EXCEPT !.link[entry] = Null, !.size = @ + 1], TRUE)

\* enqueue without the check that rejects an entry already in the queue.
enqueue_noDuplicateCheck(q, entry) ==
  IF ~IsReference(entry) THEN Return(q, FALSE)
  ELSE append(q, entry)

\* enqueue whose guard forgets null: typeof null is "object", and the read
\* of the link property of null throws.
enqueue_noNullCheck(q, entry) ==
  IF TypeOf(entry) # "object" /\ TypeOf(entry) # "function"
  THEN Return(q, FALSE)
  ELSE IF entry = Null THEN Throw(q, FALSE)
  ELSE IF Get(q.link, entry) # Undefined THEN Return(q, FALSE)
  ELSE append(q, entry)

enqueue(q, entry) ==
  IF ~IsReference(entry) THEN Return(q, FALSE)
  ELSE IF Get(q.link, entry) # Undefined THEN Return(q, FALSE)
  ELSE append(q, entry)

\* A dequeue that removes the link property of the new head instead of the
\* one of the entry it returns.
dequeue_releasesNext(q) ==
  LET entry == q.head
  IN  IF entry = Null THEN Return(q, Null)
      ELSE IF entry = Undefined THEN Throw(q, Null)
      ELSE LET next == Get(q.link, entry)
               q1 == [q EXCEPT !.head = next]
               q2 == IF next = Null THEN [q1 EXCEPT !.tail = Null] ELSE q1
               q3 == [q2 EXCEPT !.size = @ - 1]
           IN  Return(IF Truthy(next)
                      THEN [q3 EXCEPT !.link[next] = Absent]
                      ELSE q3,
                      entry)

dequeue(q) ==
  LET entry == q.head
  IN  IF entry = Null THEN Return(q, Null)
      ELSE IF entry = Undefined THEN Throw(q, Null)
      ELSE LET next == Get(q.link, entry)
               q1 == [q EXCEPT !.head = next]
               q2 == IF next = Null THEN [q1 EXCEPT !.tail = Null] ELSE q1
           IN  Return([q2 EXCEPT !.size = @ - 1, !.link[entry] = Absent],
                      entry)

\* A clear that only resets the fields and leaves the link properties.
clearLoop_keepsLinks(link, entry) == link

\* The loop of clear: every entry reached from the head loses its property.
RECURSIVE clearLoop(_, _)
clearLoop(link, entry) ==
  IF ~Truthy(entry) THEN link
  ELSE clearLoop([link EXCEPT ![entry] = Absent], Get(link, entry))

\* A clear that resets head and tail to undefined instead of null.
clear_resetsToUndefined(q) ==
  Return([head |-> Undefined, tail |-> Undefined, size |-> 0,
          link |-> clearLoop(q.link, q.head)], Null)

clear(q) ==
  Return([head |-> Null, tail |-> Null, size |-> 0,
          link |-> clearLoop(q.link, q.head)], Null)

\* The loop of delete, from the iteration that looks at current.
RECURSIVE deleteLoop(_, _, _, _)
deleteLoop(q, entry, prev, current) ==
  IF ~Truthy(current) THEN Return(q, FALSE)
  ELSE LET next == Get(q.link, current)
       IN  IF current = entry
           THEN IF prev # Null /\ ~Writable(q.link, prev) THEN Throw(q, FALSE)
                ELSE LET q1 == IF prev = Null
                               THEN [q EXCEPT !.head = next]
                               ELSE [q EXCEPT !.link[prev] = next]
                         q2 == IF next = Null
                               THEN [q1 EXCEPT !.tail = prev]
                               ELSE q1
                     IN  Return([q2 EXCEPT !.size = @ - 1,
                                           !.link[current] = Absent], TRUE)
           ELSE deleteLoop(q, entry, current, next)

delete(q, entry) ==
  IF ~IsReference(entry) THEN Return(q, FALSE)
  ELSE IF Get(q.link, entry) = Undefined THEN Return(q, FALSE)
  ELSE deleteLoop(q, entry, Null, q.head)

\* The loop of toArray and toSet: the entries reached from entry, in order.
RECURSIVE walk(_, _)
walk(link, entry) ==
  IF ~Truthy(entry) THEN <<>>
  ELSE <<entry>> \o walk(link, Get(link, entry))

toArray(q) == Return(q, walk(q.link, q.head))

toSet(q) ==
  LET array == walk(q.link, q.head)
  IN  Return(q, {array[i] : i \in DOMAIN array})

\* The loop of enqueueMany over entries[i..]; a TypeError thrown by enqueue
\* ends the call with the entries before it enqueued.
RECURSIVE enqueueManyLoop(_, _, _, _)
enqueueManyLoop(q, entries, i, result) ==
  IF i > Len(entries) THEN Return(q, result)
  ELSE LET r == enqueue(q, entries[i])
       IN  IF r.threw THEN Throw(r.q, result)
           ELSE enqueueManyLoop(r.q, entries, i + 1,
                                IF r.ret THEN result + 1 ELSE result)

enqueueMany(q, entries) == enqueueManyLoop(q, entries, 1, 0)

\* enqueueMany over an input that is produced while the loop runs.  Before
\* the loop takes element i the producer does does[i]: "yield" hands over
\* entries[i]; "dequeue" first calls dequeue on this queue and then hands
\* over entries[i]; "throw" fails instead of handing over an element.  An
\* exception of the producer, or of enqueue, ends the call.
RECURSIVE enqueueManyLazyLoop(_, _, _, _, _)
enqueueManyLazyLoop(q, entries, does, i, result) ==
  IF i > Len(entries) THEN Return(q, result)
  ELSE IF does[i] = "throw" THEN Throw(q, result)
  ELSE LET d == IF does[i] = "dequeue" THEN dequeue(q) ELSE Return(q, Null)
       IN  IF d.threw THEN Throw(d.q, result)
           ELSE LET r == enqueue(d.q, entries[i])
                IN  IF r.threw THEN Throw(r.q, result)
                    ELSE enqueueManyLazyLoop(r.q, entries, does, i + 1,
                           IF r.ret THEN result + 1 ELSE result)

enqueueManyLazy(q, entries, does) ==
  enqueueManyLazyLoop(q, entries, does, 1, 0)

\* The symbol an instance keeps its links under: the constructor makes a
\* new symbol for every instance, so no two instances have the same one.
nextSymbol_shared(instance) == "this"

nextSymbol(instance) == instance

\* A generator that keeps only the entry it yielded and reads that entry's
\* link when it is resumed, not before the yield.
resume_readsAfterYield(q, it) ==
  LET entry == IF it.pc = "created" THEN q.head ELSE Get(q.link, it.next)
  IN  IF Truthy(entry)
      THEN [pc |-> "suspended", next |-> entry,
            value |-> entry, done |-> FALSE]
      ELSE [pc |-> "done", next |-> entry, value |-> Undefined,
            done |-> TRUE]

\* A generator that never moves on to the successor it has read.
resume_noAdvance(q, it) ==
  LET entry == IF it.pc = "created" THEN q.head ELSE it.next
  IN  IF Truthy(entry)
      THEN [pc |-> "suspended", next |-> entry,
            value |-> entry, done |-> FALSE]
      ELSE [pc |-> "done", next |-> entry, value |-> Undefined,
            done |-> TRUE]

\* One call of next() on the generator of [Symbol.iterator]: the loop runs
\* from where it stands to its next yield, or to its end.  The successor is
\* read before the entry is yielded.
resume(q, it) ==
  LET entry == IF it.pc = "created" THEN q.head ELSE it.next
  IN  IF Truthy(entry)
      THEN [pc |-> "suspended", next |-> Get(q.link, entry),
            value |-> entry, done |-> FALSE]
      ELSE [pc |-> "done", next |-> entry, value |-> Undefined,
            done |-> TRUE]

\* queue.enqueueMany(queue): the input is the queue's own iterator, resumed
\* by the loop before every element.
RECURSIVE enqueueManyOwnLoop(_, _, _)
enqueueManyOwnLoop(q, it, result) ==
  LET y == resume(q, it)
  IN  IF y.done THEN Return(q, result)
      ELSE LET r == enqueue(q, y.value)
           IN  IF r.threw THEN Throw(r.q, result)
               ELSE enqueueManyOwnLoop(r.q, [pc |-> y.pc, next |-> y.next],
                      IF r.ret THEN result + 1 ELSE result)

enqueueManyOwn(q) ==
  enqueueManyOwnLoop(q, [pc |-> "created", next |-> Undefined], 0)

(***************************************************************************)
(* Operations of the plain variant (src/index.ts).  It keeps the link      *)
(* under nextSymbol and marks a removed entry by assigning undefined to    *)
(* the property instead of deleting it.                                    *)
(***************************************************************************)
plain_has(q, entry) ==
  IF ~IsReference(entry) THEN Return(q, FALSE)
  ELSE Return(q, Get(q.link, entry) # Undefined)

plain_getNext(q, entry) ==
  IF ~IsReference(entry) THEN Return(q, Null)
  ELSE LET v == Get(q.link, entry)
       IN  Return(q, IF Truthy(v) THEN v ELSE Null)

\* The plain enqueue without the check that rejects an entry already in
\* the queue.
plain_enqueue_noDuplicateCheck(q, entry) ==
  IF ~IsReference(entry) THEN Return(q, FALSE)
  ELSE IF q.tail # Null /\ ~Writable(q.link, q.tail) THEN Throw(q, FALSE)
  ELSE LET q1 == IF q.tail = Null
                 THEN [q EXCEPT !.tail = entry, !.head = entry]
                 ELSE [q EXCEPT !.link[q.tail] = entry, !.tail = entry]
       IN  IF ~Writable(q1.link, entry) THEN Throw(q1, FALSE)
           ELSE Return([q1 EXCEPT !.link[entry] = Null, !.size = @ + 1], TRUE)

plain_enqueue(q, entry) ==
  IF ~IsReference(entry) THEN Return(q, FALSE)
  ELSE IF Get(q.link, entry) # Undefined THEN Return(q, FALSE)
  ELSE IF q.tail # Null /\ ~Writable(q.link, q.tail) THEN Throw(q, FALSE)
  ELSE LET q1 == IF q.tail = Null
                 THEN [q EXCEPT !.tail = entry, !.head = entry]
                 ELSE [q EXCEPT !.link[q.tail] = entry, !.tail = entry]
       IN  IF ~Writable(q1.link, entry) THEN Throw(q1, FALSE)
           ELSE Return([q1 EXCEPT !.link[entry] = Null, !.size = @ + 1], TRUE)

plain_dequeue(q) ==
  LET entry == q.head
  IN  IF entry = Null THEN Return(q, Null)
      ELSE IF entry = Undefined THEN Throw(q, Null)
      ELSE LET next == Get(q.link, entry)
               q1 == [q EXCEPT !.head = next]
               q2 == IF next = Null THEN [q1 EXCEPT !.tail = Null] ELSE q1
               q3 == [q2 EXCEPT !.size = @ - 1]
           IN  IF ~Writable(q3.link, entry) THEN Throw(q3, Null)
               ELSE Return([q3 EXCEPT !.link[entry] = Undefined], entry)

\* The loop of the plain clear: every entry reached from the head has its
\* property set to undefined; the assignment can throw.
RECURSIVE plain_clearLoop(_, _)
plain_clearLoop(link, entry) ==
  IF ~Truthy(entry) THEN [link |-> link, threw |-> FALSE]
  ELSE IF ~Writable(link, entry) THEN [link |-> link, threw |-> TRUE]
  ELSE plain_clearLoop([link EXCEPT ![entry] = Undefined], Get(link, entry))

plain_clear(q) ==
  LET r == plain_clearLoop(q.link, q.head)
  IN  IF r.threw THEN Throw([q EXCEPT !.link = r.link], Null)
      ELSE Return([head |-> Null, tail |-> Null, size |-> 0,
                   link |-> r.link], Null)

plain_toArray(q) == Return(q, walk(q.link, q.head))

(***************************************************************************)
(* History                                                                 *)
(***************************************************************************)
\* s without the entry e.
Without(s, e) == SelectSeq(s, LAMBDA x : x # e)

\* The entries of entries[i..] whose enqueue returns true, in input order.
RECURSIVE accepted(_, _, _)
accepted(q, entries, i) ==
  IF i > Len(entries) THEN <<>>
  ELSE LET r == enqueue(q, entries[i])
       IN  IF r.threw THEN <<>>
           ELSE (IF r.ret THEN <<entries[i]>> ELSE <<>>)
                \o accepted(r.q, entries, i + 1)

\* The record of a call: its name, its argument, and the result in the
\* field of its type.
Call(op, arg, args, threw, bool, val, num, arr, set) ==
  [op |-> op, arg |-> arg, args |-> args, threw |-> threw,
   bool |-> bool, val |-> val, num |-> num, arr |-> arr, set |-> set]

\* The queue q becomes the state.
Becomes(q) ==
  /\ head' = q.head
  /\ tail' = q.tail
  /\ size' = q.size
  /\ _next' = q.link
  /\ before' = Queue
  /\ pass' = IF iter.pc \in {"created", "suspended"} /\ q # Queue
             THEN [pass EXCEPT !.mutated = TRUE]
             ELSE pass
  /\ UNCHANGED <<iter, other>>

\* Input sequences of enqueueMany: over an object, the object created from
\* it, the frozen object, and a number for the elements that are not
\* references.
Inputs == UNION {[1..n -> {"a", "c", "f", "123"}] : n \in 0..MaxMany}

(***************************************************************************)
(* Specification: any sequence of calls on a new queue                     *)
(***************************************************************************)
Init ==
  /\ head = Null
  /\ tail = Null
  /\ size = 0
  /\ _next = [o \in Objects |-> Absent]
  /\ last = Call("new", Null, <<>>, FALSE, FALSE, Null, 0, <<>>, {})
  /\ order = <<>>
  /\ before = Queue
  /\ iter = [pc |-> "none", next |-> Undefined]
  /\ pass = [yielded |-> <<>>, mutated |-> FALSE]
  /\ other = [head |-> Null, tail |-> Null, size |-> 0,
              link |-> [o \in Objects |-> Absent]]

Has(entry) ==
  LET r == has(Queue, entry)
  IN  /\ Becomes(r.q)
      /\ last' = Call("has", entry, <<>>, r.threw, r.ret, Null, 0, <<>>, {})
      /\ UNCHANGED order

GetNext(entry) ==
  LET r == getNext(Queue, entry)
  IN  /\ Becomes(r.q)
      /\ last' = Call("getNext", entry, <<>>, r.threw, FALSE, r.ret, 0, <<>>, {})
      /\ UNCHANGED order

Enqueue(entry) ==
  LET r == enqueue(Queue, entry)
  IN  /\ Becomes(r.q)
      /\ last' = Call("enqueue", entry, <<>>, r.threw, r.ret, Null, 0, <<>>, {})
      /\ order' = IF r.ret THEN Append(order, entry) ELSE order

EnqueueMany(entries) ==
  LET r == enqueueMany(Queue, entries)
  IN  /\ Becomes(r.q)
      /\ last' = Call("enqueueMany", Null, entries, r.threw, FALSE, Null,
                      r.ret, <<>>, {})
      /\ order' = order \o accepted(Queue, entries, 1)

Dequeue ==
  LET r == dequeue(Queue)
  IN  /\ Becomes(r.q)
      /\ last' = Call("dequeue", Null, <<>>, r.threw, FALSE, r.ret, 0, <<>>, {})
      /\ order' = Without(order, r.ret)

Delete(entry) ==
  LET r == delete(Queue, entry)
  IN  /\ Becomes(r.q)
      /\ last' = Call("delete", entry, <<>>, r.threw, r.ret, Null, 0, <<>>, {})
      /\ order' = IF r.ret THEN Without(order, entry) ELSE order

Clear ==
  LET r == clear(Queue)
  IN  /\ Becomes(r.q)
      /\ last' = Call("clear", Null, <<>>, r.threw, FALSE, Null, 0, <<>>, {})
      /\ order' = <<>>

ToArray ==
  LET r == toArray(Queue)
  IN  /\ Becomes(r.q)
      /\ last' = Call("toArray", Null, <<>>, r.threw, FALSE, Null, 0, r.ret, {})
      /\ UNCHANGED order

ToSet ==
  LET r == toSet(Queue)
  IN  /\ Becomes(r.q)
      /\ last' = Call("toSet", Null, <<>>, r.threw, FALSE, Null, 0, <<>>,
                      r.ret)
      /\ UNCHANGED order

Next ==
  \/ \E entry \in Values : Has(entry)
  \/ \E entry \in Values : GetNext(entry)
  \/ \E entry \in Values : Enqueue(entry)
  \/ \E entries \in Inputs : EnqueueMany(entries)
  \/ Dequeue
  \/ \E entry \in Values : Delete(entry)
  \/ Clear
  \/ ToArray
  \/ ToSet

Spec == Init /\ [][Next]_vars

(***************************************************************************)
(* Specification: calls on a queue while it is iterated                    *)
(***************************************************************************)
\* The entries the calls are made with while a pass is followed.
IterValues == {"a", "b", "c", "f"}

\* queue[Symbol.iterator](): a new generator, whose body has not run yet.
Iterator ==
  /\ iter' = [pc |-> "created", next |-> Undefined]
  /\ pass' = [yielded |-> <<>>, mutated |-> FALSE]
  /\ last' = Call("iterator", Null, <<>>, FALSE, FALSE, Null, 0, <<>>, {})
  /\ before' = Queue
  /\ UNCHANGED <<head, tail, size, _next, order, other>>

\* next() on the generator of the pass in progress.
IteratorNext ==
  /\ iter.pc \in {"created", "suspended"}
  /\ LET r == resume(Queue, iter)
     IN  /\ r.done \/ Len(pass.yielded) < MaxYield
         /\ iter' = [pc |-> r.pc, next |-> r.next]
         /\ pass' = IF r.done THEN pass
                    ELSE [pass EXCEPT !.yielded = Append(@, r.value)]
         /\ last' = Call("next", Null, <<>>, FALSE, r.done, r.value, 0,
                         <<>>, {})
  /\ before' = Queue
  /\ UNCHANGED <<head, tail, size, _next, order, other>>

NextIter ==
  \/ \E entry \in IterValues : Enqueue(entry)
  \/ Dequeue
  \/ \E entry \in IterValues : Delete(entry)
  \/ Clear
  \/ ToArray
  \/ Iterator
  \/ IteratorNext

SpecIter == Init /\ [][NextIter]_vars

(***************************************************************************)
(* Specifications: a caller that changes the queue between the steps of a  *)
(* pass, in one fixed manner each                                          *)
(***************************************************************************)
\* The caller fills the queue before it starts a pass.
Fill(entry) == iter.pc = "none" /\ Enqueue(entry)

\* The caller starts its one pass.
StartPass == iter.pc = "none" /\ Iterator

\* The entry the pass yielded last.
yieldedLast == pass.yielded[Len(pass.yielded)]

\* Re-insertion: the pass is over a queue of at least two entries; each
\* time an entry is yielded the caller deletes it, enqueues it again, and
\* only then resumes the pass.
StartPassOverTwo == size >= 2 /\ StartPass

ReinsertDelete ==
  /\ iter.pc = "suspended" /\ last.op = "next"
  /\ Delete(yieldedLast)

ReinsertEnqueue ==
  /\ iter.pc = "suspended" /\ last.op = "delete" /\ last.bool
  /\ Enqueue(last.arg)

ReinsertResume ==
  /\ last.op = "iterator" \/ (last.op = "enqueue" /\ last.bool)
  /\ IteratorNext

NextReinsert ==
  \/ \E entry \in IterValues : Fill(entry)
  \/ StartPassOverTwo
  \/ ReinsertDelete
  \/ ReinsertEnqueue
  \/ ReinsertResume

SpecReinsert == Init /\ [][NextReinsert]_vars

\* Removal: each time an entry is yielded the caller may remove it, by
\* dequeue when it is the head, by delete, or by clear, and then resumes
\* the pass.
RemoveByDequeue ==
  /\ iter.pc = "suspended" /\ last.op = "next"
  /\ head = yieldedLast
  /\ Dequeue

RemoveByDelete ==
  /\ iter.pc = "suspended" /\ last.op = "next"
  /\ Delete(yieldedLast)

RemoveByClear ==
  /\ iter.pc = "suspended" /\ last.op = "next"
  /\ Clear

NextRemove ==
  \/ \E entry \in IterValues : Fill(entry)
  \/ StartPass
  \/ RemoveByDequeue
  \/ RemoveByDelete
  \/ RemoveByClear
  \/ IteratorNext

SpecRemove == Init /\ [][NextRemove]_vars

\* Draining: each time an entry is yielded the caller calls dequeue once,
\* and then resumes the pass.
DrainDequeue ==
  /\ iter.pc = "suspended" /\ last.op = "next"
  /\ Dequeue

DrainResume ==
  /\ last.op \in {"iterator", "dequeue"}
  /\ IteratorNext

NextDrain ==
  \/ \E entry \in IterValues : Fill(entry)
  \/ StartPass
  \/ DrainDequeue
  \/ DrainResume

SpecDrain == Init /\ [][NextDrain]_vars

(***************************************************************************)
(* Specification: enqueueMany with inputs that are produced lazily, that   *)
(* fail, or that are the queue itself                                      *)
(***************************************************************************)
\* The entries the calls are made with.
ManyValues == {"a", "b", "f"}

\* What a producer does before it hands over an element.
Does == {"yield", "dequeue", "throw"}

\* The history of accepted entries after enqueueManyLazy, from element i.
RECURSIVE orderLazy(_, _, _, _, _)
orderLazy(q, ord, entries, does, i) ==
  IF i > Len(entries) \/ does[i] = "throw" THEN ord
  ELSE LET d == IF does[i] = "dequeue" THEN dequeue(q) ELSE Return(q, Null)
           ord1 == IF does[i] = "dequeue" /\ ~d.threw
                   THEN Without(ord, d.ret) ELSE ord
       IN  IF d.threw THEN ord1
           ELSE LET r == enqueue(d.q, entries[i])
                IN  IF r.threw THEN ord1
                    ELSE orderLazy(r.q,
                           IF r.ret THEN Append(ord1, entries[i]) ELSE ord1,
                           entries, does, i + 1)

EnqueueManyLazy(entries, does) ==
  LET r == enqueueManyLazy(Queue, entries, does)
  IN  /\ Becomes(r.q)
      /\ last' = Call("enqueueMany.lazy", Null, entries, r.threw, FALSE, Null,
                      r.ret, does, {})
      /\ order' = orderLazy(Queue, order, entries, does, 1)

EnqueueManyOwn ==
  LET r == enqueueManyOwn(Queue)
  IN  /\ Becomes(r.q)
      /\ last' = Call("enqueueMany.own", Null, <<>>, r.threw, FALSE, Null,
                      r.ret, <<>>, {})
      /\ UNCHANGED order

NextMany ==
  \/ \E entry \in ManyValues : Enqueue(entry)
  \/ Dequeue
  \/ \E n \in 0..MaxMany :
       \E entries \in [1..n -> ManyValues], does \in [1..n -> Does] :
         EnqueueManyLazy(entries, does)
  \/ EnqueueManyOwn

SpecMany == Init /\ [][NextMany]_vars

(***************************************************************************)
(* Specification: calls on two queues that are given the same objects      *)
(***************************************************************************)
\* The entries the calls on the two queues are made with.
TwoValues == {"a", "c", "f"}

\* The second queue, with the links found under its symbol.
otherQueue ==
  [other EXCEPT !.link = IF nextSymbol("other") = nextSymbol("this")
                         THEN _next ELSE other.link]

\* The queue q becomes the state of the second queue.
OtherBecomes(q) ==
  /\ other' = [q EXCEPT !.link = IF nextSymbol("other") = nextSymbol("this")
                                 THEN other.link ELSE q.link]
  /\ _next' = IF nextSymbol("other") = nextSymbol("this")
              THEN q.link ELSE _next
  /\ before' = Queue
  /\ UNCHANGED <<head, tail, size, order, iter, pass>>

OtherHas(entry) ==
  LET r == has(otherQueue, entry)
  IN  /\ OtherBecomes(r.q)
      /\ last' = Call("other.has", entry, <<>>, r.threw, r.ret, Null, 0,
                      <<>>, {})

OtherEnqueue(entry) ==
  LET r == enqueue(otherQueue, entry)
  IN  /\ OtherBecomes(r.q)
      /\ last' = Call("other.enqueue", entry, <<>>, r.threw, r.ret, Null, 0,
                      <<>>, {})

OtherDequeue ==
  LET r == dequeue(otherQueue)
  IN  /\ OtherBecomes(r.q)
      /\ last' = Call("other.dequeue", Null, <<>>, r.threw, FALSE, r.ret, 0,
                      <<>>, {})

OtherDelete(entry) ==
  LET r == delete(otherQueue, entry)
  IN  /\ OtherBecomes(r.q)
      /\ last' = Call("other.delete", entry, <<>>, r.threw, r.ret, Null, 0,
                      <<>>, {})

OtherClear ==
  LET r == clear(otherQueue)
  IN  /\ OtherBecomes(r.q)
      /\ last' = Call("other.clear", Null, <<>>, r.threw, FALSE, Null, 0,
                      <<>>, {})

NextTwo ==
  \/ \E entry \in TwoValues : Has(entry)
  \/ \E entry \in TwoValues : Enqueue(entry)
  \/ Dequeue
  \/ \E entry \in TwoValues : Delete(entry)
  \/ Clear
  \/ \E entry \in TwoValues : OtherHas(entry)
  \/ \E entry \in TwoValues : OtherEnqueue(entry)
  \/ OtherDequeue
  \/ \E entry \in TwoValues : OtherDelete(entry)
  \/ OtherClear

SpecTwo == Init /\ [][NextTwo]_vars

(***************************************************************************)
(* Specification: the same calls made on a queue of the full variant and   *)
(* on a queue of the plain variant, with the same objects                  *)
(***************************************************************************)
\* The entries the calls on the two variants are made with.
PlainValues == {"a", "b", "c", "f", "123"}

\* The queue q becomes the state of the full queue and p.q the state of the
\* plain one, which is kept in the second instance.
BothBecome(q, p) ==
  /\ head' = q.head
  /\ tail' = q.tail
  /\ size' = q.size
  /\ _next' = q.link
  /\ other' = p.q
  /\ before' = Queue
  /\ UNCHANGED <<iter, pass>>

BothHas(entry) ==
  LET r == has(Queue, entry)
  IN  /\ BothBecome(r.q, plain_has(other, entry))
      /\ last' = Call("has", entry, <<>>, r.threw, r.ret, Null, 0, <<>>, {})
      /\ UNCHANGED order

BothGetNext(entry) ==
  LET r == getNext(Queue, entry)
  IN  /\ BothBecome(r.q, plain_getNext(other, entry))
      /\ last' = Call("getNext", entry, <<>>, r.threw, FALSE, r.ret, 0, <<>>, {})
      /\ UNCHANGED order

BothEnqueue(entry) ==
  LET r == enqueue(Queue, entry)
  IN  /\ BothBecome(r.q, plain_enqueue(other, entry))
      /\ last' = Call("enqueue", entry, <<>>, r.threw, r.ret, Null, 0, <<>>, {})
      /\ order' = IF r.ret THEN Append(order, entry) ELSE order

BothDequeue ==
  LET r == dequeue(Queue)
  IN  /\ BothBecome(r.q, plain_dequeue(other))
      /\ last' = Call("dequeue", Null, <<>>, r.threw, FALSE, r.ret, 0, <<>>, {})
      /\ order' = Without(order, r.ret)

BothClear ==
  LET r == clear(Queue)
  IN  /\ BothBecome(r.q, plain_clear(other))
      /\ last' = Call("clear", Null, <<>>, r.threw, FALSE, Null, 0, <<>>, {})
      /\ order' = <<>>

BothToArray ==
  LET r == toArray(Queue)
  IN  /\ BothBecome(r.q, plain_toArray(other))
      /\ last' = Call("toArray", Null, <<>>, r.threw, FALSE, Null, 0, r.ret, {})
      /\ UNCHANGED order

NextPlain ==
  \/ \E entry \in PlainValues : BothHas(entry)
  \/ \E entry \in PlainValues : BothGetNext(entry)
  \/ \E entry \in PlainValues : BothEnqueue(entry)
  \/ BothDequeue
  \/ BothClear
  \/ BothToArray

SpecPlain == Init /\ [][NextPlain]_vars

(***************************************************************************)
(* Properties                                                              *)
(***************************************************************************)
\* What toArray would return in the current state and in the next one.
contents == walk(_next, head)

contentsAfter == walk(_next', head')

\* The elements of a sequence.
Range(s) == {s[i] : i \in DOMAIN s}

\* The queue of the next state.
QueueAfter ==
  [head |-> head', tail |-> tail', size |-> size', link |-> _next']

\* Membership as a caller sees it, now and in the next state: has(e).
Member(e) == has(Queue, e).ret

MemberAfter(e) == has(QueueAfter, e).ret

\* The step is a call of op with argument entry.
Calls(op, entry) == last'.op = op /\ last'.arg = entry

\* The step leaves head, tail, size and every link state as they were.
QueueUnchanged == UNCHANGED <<head, tail, size, _next>>

\* C1: in every reachable state head is null iff tail is null iff size
\* is 0.
C1_EmptyIffAll ==
  /\ (head = Null) <=> (tail = Null)
  /\ (tail = Null) <=> (size = 0)

\* C2: FIFO order: every dequeue returns the oldest entry among those that
\* were enqueued successfully and not removed since, and null when there is
\* none, also after the queue was emptied and refilled.
C2_Fifo ==
  [][last'.op = "dequeue" =>
       /\ ~last'.threw
       /\ last'.val = IF order = <<>> THEN Null ELSE Head(order)]_vars

\* C3: enqueue of an entry that is already a member returns false and leaves
\* head, tail, size and every link state unchanged; a successful enqueue
\* grows size by exactly 1 and the same call repeated right after it
\* returns false.
C3_DuplicateRejected ==
  [][\A e \in Objects :
       /\ (Calls("enqueue", e) /\ Member(e)) =>
            (~last'.bool /\ ~last'.threw /\ QueueUnchanged)
       /\ (Calls("enqueue", e) /\ last'.bool) => size' = size + 1
       /\ (Calls("enqueue", e) /\ last.op = "enqueue" /\ last.arg = e
             /\ last.bool) =>
            (~last'.bool /\ ~last'.threw /\ size' = size)]_vars

\* C3 witness: an enqueue of an entry that is in the queue, between two
\* others, has just been rejected.
C3_Witness ==
  /\ last.op = "enqueue"
  /\ last.arg \in Objects
  /\ ~last.bool
  /\ ~last.threw
  /\ size = 3
  /\ contents[2] = last.arg

\* C4: in every reachable state and for every entry e, has(e) is true iff e
\* appears in toArray().
C4_HasIffInArray ==
  \A e \in Values : Member(e) <=> e \in Range(contents)

\* C5: following the links from head exactly size times visits every member
\* exactly once, the last entry visited is tail, and tail's link is null.
C5_ChainWellFormed ==
  /\ size >= 0
  /\ Len(contents) = size
  /\ \A i, j \in DOMAIN contents : i # j => contents[i] # contents[j]
  /\ Range(contents) = {o \in Objects : Member(o)}
  /\ size > 0 => (contents[size] = tail /\ _next[tail] = Null)

\* C6: for an entry that is null, undefined or a value type, has returns
\* false, getNext returns null, enqueue and delete return false, none of
\* them throws, and head, tail, size and all link states are unchanged.
C6_InvalidRejected ==
  [][\A v \in Values \ Objects :
       /\ Calls("has", v) => (~last'.bool /\ ~last'.threw /\ QueueUnchanged)
       /\ Calls("getNext", v) =>
            (last'.val = Null /\ ~last'.threw /\ QueueUnchanged)
       /\ Calls("enqueue", v) =>
            (~last'.bool /\ ~last'.threw /\ QueueUnchanged)
       /\ Calls("delete", v) =>
            (~last'.bool /\ ~last'.threw /\ QueueUnchanged)]_vars

\* C6 witness: a number has just been refused by a queue holding entries.
C6_Witness ==
  /\ last.op = "enqueue"
  /\ last.arg = "123"
  /\ ~last.bool
  /\ size = 2

\* C7: enqueue of a non-null reference that is not a member returns true;
\* on an empty queue the entry becomes head and tail, otherwise head stays,
\* the old tail links to the entry and tail becomes the entry; the entry's
\* link is null, size grows by 1, all other links stay, and toArray() is
\* the previous toArray() with the entry appended.
C7_EnqueueEffect ==
  [][\A e \in Objects :
       (Calls("enqueue", e) /\ ~Member(e)) =>
         /\ last'.bool
         /\ ~last'.threw
         /\ IF tail = Null
            THEN head' = e /\ tail' = e
            ELSE head' = head /\ _next'[tail] = e /\ tail' = e
         /\ _next'[e] = Null
         /\ size' = size + 1
         /\ \A o \in Objects \ {e, tail} : _next'[o] = _next[o]
         /\ contentsAfter = Append(contents, e)]_vars

\* C8: dequeue on an empty queue returns null and changes nothing; on a
\* non-empty queue it returns the head, head becomes that entry's former
\* successor, tail becomes null exactly when the queue becomes empty, size
\* drops by 1, has is false and getNext is null for the returned entry, and
\* the remaining members keep their order.
C8_DequeueEffect ==
  [][last'.op = "dequeue" =>
       IF head = Null
       THEN last'.val = Null /\ ~last'.threw /\ QueueUnchanged
       ELSE /\ ~last'.threw
            /\ last'.val = head
            /\ contents # <<>>
            /\ contentsAfter = Tail(contents)
            /\ head' = IF contentsAfter = <<>> THEN Null ELSE contentsAfter[1]
            /\ (tail' = Null) <=> (contentsAfter = <<>>)
            /\ size' = size - 1
            /\ ~MemberAfter(last'.val)
            /\ getNext(QueueAfter, last'.val).ret = Null
    ]_vars

\* C9: delete of a member, wherever it stands in the queue, returns true;
\* toArray() is then the previous toArray() without that entry, the others
\* in the same order; head and tail are the new first and last entries,
\* both null when none is left; size drops by 1 and the entry is no longer
\* a member.
C9_DeleteMember ==
  [][\A e \in Objects :
       (Calls("delete", e) /\ e \in Range(contents)) =>
         /\ last'.bool
         /\ ~last'.threw
         /\ contentsAfter = Without(contents, e)
         /\ Len(contentsAfter) = Len(contents) - 1
         /\ head' = IF contentsAfter = <<>> THEN Null ELSE contentsAfter[1]
         /\ tail' = IF contentsAfter = <<>>
                    THEN Null
                    ELSE contentsAfter[Len(contentsAfter)]
         /\ size' = size - 1
         /\ ~MemberAfter(e)]_vars

\* C10: delete(e) returns true iff has(e) was true right before the call;
\* for a non-member it returns false and leaves head, tail, size and all
\* link states unchanged.
C10_DeleteIffHas ==
  [][\A e \in Values :
       Calls("delete", e) =>
         /\ ~last'.threw
         /\ last'.bool <=> Member(e)
         /\ ~Member(e) => QueueUnchanged]_vars

\* What toArray would have returned when the last call was made.
contentsBefore == walk(before.link, before.head)

\* C11: clear leaves size 0 and head and tail null; has is false and getNext
\* is null afterwards for every entry that was a member; a dequeue right
\* after a clear returns null.
C11_ClearEmpties ==
  [][/\ last'.op = "clear" =>
          /\ ~last'.threw
          /\ size' = 0
          /\ head' = Null
          /\ tail' = Null
          /\ \A e \in Values :
               Member(e) =>
                 (~MemberAfter(e) /\ getNext(QueueAfter, e).ret = Null)
     /\ (last.op = "clear" /\ last'.op = "dequeue") =>
          (last'.val = Null /\ ~last'.threw)]_vars

\* C11 witness: a clear has just emptied a queue of three entries.
C11_Witness ==
  /\ last.op = "clear"
  /\ Len(contentsBefore) = 3
  /\ before.size = 3
  /\ size = 0
  /\ \A e \in Objects : ~Member(e)

\* C12: clear on an empty queue changes neither head, tail, size nor any
\* link state, and a clear right after a clear changes nothing.
C12_ClearIdempotent ==
  [][/\ (last'.op = "clear" /\ head = Null /\ tail = Null /\ size = 0) =>
          QueueUnchanged
     /\ (last.op = "clear" /\ last'.op = "clear") => QueueUnchanged
     /\ clear(clear(Queue).q).q = clear(Queue).q]_vars

\* C12 witness: a clear has just run on an empty queue and changed nothing.
C12_Witness ==
  /\ last.op = "clear"
  /\ before.head = Null
  /\ before.tail = Null
  /\ before.size = 0
  /\ Queue = before

\* The queue after enqueue has been called on each of entries[i..] in turn.
RECURSIVE enqueueEach(_, _, _)
enqueueEach(q, entries, i) ==
  IF i > Len(entries) THEN q
  ELSE enqueueEach(enqueue(q, entries[i]).q, entries, i + 1)

\* C14: enqueueMany returns the number of distinct valid entries of its
\* input that were not members before the call, which is the number of
\* elements enqueue accepted, and leaves the queue as enqueue called on
\* each element in input order leaves it.
C14_EnqueueManyCount ==
  [][last'.op = "enqueueMany" =>
       /\ ~last'.threw
       /\ last'.num = Len(accepted(Queue, last'.args, 1))
       /\ last'.num =
            Cardinality({e \in Range(last'.args) \cap Objects : ~Member(e)})
       /\ QueueAfter = enqueueEach(Queue, last'.args, 1)]_vars

\* The entry after e in the sequence s, Null when e is its last element.
Successor(s, e) ==
  LET i == CHOOSE k \in DOMAIN s : s[k] = e
  IN  IF i = Len(s) THEN Null ELSE s[i + 1]

\* C15: getNext(e) returns, for an entry of the queue, the entry that
\* follows it in toArray(), null for the last one; null for an entry that
\* is not in the queue; it never changes the queue.
C15_GetNextSuccessor ==
  [][\A e \in Values :
       Calls("getNext", e) =>
         /\ ~last'.threw
         /\ QueueUnchanged
         /\ IF e \in Range(contents)
            THEN last'.val = Successor(contents, e)
            ELSE last'.val = Null]_vars

\* The call before this step removed e from the queue.
JustRemoved(e) ==
  \/ last.op = "dequeue" /\ last.val = e
  \/ last.op = "delete" /\ last.arg = e /\ last.bool
  \/ last.op = "clear" /\ e \in Range(contentsBefore)

\* C16: enqueue of an entry that a dequeue, delete or clear has just removed
\* returns true and makes it the tail; enqueue(e) then dequeue() on an
\* empty queue returns e and gives back the empty queue.
C16_RemovedReusable ==
  [][\A e \in Objects :
       /\ (Calls("enqueue", e) /\ JustRemoved(e)) =>
            (last'.bool /\ ~last'.threw /\ tail' = e)
       /\ (last'.op = "dequeue" /\ last.op = "enqueue" /\ last.arg = e
             /\ before.head = Null /\ before.tail = Null /\ before.size = 0)
            => (last'.val = e /\ ~last'.threw /\ QueueAfter = before)]_vars

\* C17: toArray returns the entries enqueued and not removed since, oldest
\* first, as many as size; toSet returns the same entries, as many as size;
\* neither changes head, tail, size or a link state.
C17_Snapshots ==
  [][/\ last'.op = "toArray" =>
          /\ ~last'.threw
          /\ QueueUnchanged
          /\ Len(last'.arr) = size
          /\ last'.arr = order
     /\ last'.op = "toSet" =>
          /\ ~last'.threw
          /\ QueueUnchanged
          /\ Cardinality(last'.set) = size
          /\ last'.set = Range(order)]_vars

\* C19: the loops of delete, clear, toArray and toSet, which follow the
\* links from head, visit at most size entries.
C19_LoopsWithinSize == Len(contents) <= size

\* Link state PRESENT: the object carries the queue's link property.
Present(o) == _next[o] # Absent

\* C20: a link state goes from PRESENT to ABSENT only in a dequeue that
\* returns the entry, a delete of it that returns true, or a clear, and
\* from ABSENT to PRESENT only for an entry whose enqueue returns true.
C20_MembershipChanges ==
  [][\A o \in Objects :
       /\ (Present(o) /\ ~Present(o)') =>
            \/ last'.op = "dequeue" /\ last'.val = o
            \/ last'.op = "delete" /\ last'.arg = o /\ last'.bool
            \/ last'.op = "clear"
       /\ (~Present(o) /\ Present(o)') =>
            \/ last'.op = "enqueue" /\ last'.arg = o /\ last'.bool
            \/ /\ last'.op = "enqueueMany"
               /\ o \in Range(accepted(Queue, last'.args, 1))]_vars

\* C20 witness: a delete has just taken one of three members and the two
\* others still carry their link.
C20_Witness ==
  /\ last.op = "delete"
  /\ last.bool
  /\ before.size = 3
  /\ {o \in Objects : Present(o)} =
       {o \in Objects : before.link[o] # Absent} \ {last.arg}
  /\ Cardinality({o \in Objects : Present(o)}) = 2

contentsOther == walk(otherQueue.link, otherQueue.head)

MemberOther(e) == has(otherQueue, e).ret

OtherOps ==
  {"other.has", "other.enqueue", "other.dequeue", "other.delete",
   "other.clear"}

\* C13: two queues are independent.  A call on one queue changes nothing
\* of the other: not its head, tail or size, not what has answers on it for
\* any entry, not its FIFO order; in particular dequeue, delete and clear
\* on one queue leave the entry a member of the other.  What has and
\* enqueue answer on a queue follows from that queue's own state alone, so
\* an entry that is in one queue is enqueued into the other as if the first
\* did not exist: an entry whose enqueue into the first queue returned true
\* and that is still there is accepted by an empty second queue, and is
\* then in both.
C13_Independent ==
  [][/\ last'.op \notin OtherOps =>
          /\ other' = other
          /\ contentsOther' = contentsOther
          /\ \A x \in Values : MemberOther(x)' = MemberOther(x)
     /\ last'.op \in OtherOps =>
          /\ QueueUnchanged
          /\ contentsAfter = contents
          /\ \A x \in Values : MemberAfter(x) = Member(x)
     /\ \A x \in Values :
          /\ Calls("other.enqueue", x) =>
               (last'.bool = enqueue(other, x).ret /\ other' = enqueue(other, x).q)
          /\ Calls("other.has", x) => last'.bool = has(other, x).ret
          /\ (Calls("other.enqueue", x) /\ x \in Range(order)
                 /\ other.size = 0 /\ other.head = Null /\ other.tail = Null)
               => (last'.bool /\ ~last'.threw /\ Member(x)')]_vars

\* C13 witness: "a" was enqueued into both queues (each enqueue returned
\* true), it has just been deleted from the first queue, and the second
\* queue still holds it, second in its order, and answers has("a") with
\* true.
C13_Witness ==
  /\ last.op = "delete" /\ last.arg = "a" /\ last.bool
  /\ ~Member("a")
  /\ "a" \notin Range(contents)
  /\ contentsOther = <<"c", "a">>
  /\ other.size = 2
  /\ MemberOther("a")

\* s is the beginning of t.
IsPrefix(s, t) == Len(s) <= Len(t) /\ SubSeq(t, 1, Len(s)) = s

\* C18: a pass of the iterator over a queue that is not changed until the
\* pass ends yields exactly the entries of toArray, in that order, and then
\* finishes; starting a pass and following it leave the queue unchanged;
\* the first entry a new pass yields is the head the queue has at that
\* time, when head is an entry.
C18_IterationIsToArray ==
  [][/\ last'.op \in {"iterator", "next"} => QueueUnchanged
     /\ (last'.op = "next" /\ ~pass'.mutated /\ iter'.pc = "done") =>
          pass'.yielded = toArray(QueueAfter).ret
     /\ (~pass'.mutated /\ iter'.pc = "suspended") =>
          IsPrefix(pass'.yielded, toArray(QueueAfter).ret)
     /\ (last'.op = "next" /\ ~pass.mutated
           /\ pass.yielded = toArray(Queue).ret) =>
          (last'.bool /\ iter'.pc = "done")
     /\ (last'.op = "next" /\ iter.pc = "created" /\ head \in Objects) =>
          (~last'.bool /\ last'.val = head /\ pass'.yielded = <<head>>)]_vars

\* C18 witness: a pass over a queue of three entries, unchanged since the
\* pass was started, has just finished, having yielded the three entries.
C18_Witness ==
  /\ last.op = "next" /\ last.bool
  /\ iter.pc = "done" /\ ~pass.mutated
  /\ size = 3 /\ Len(pass.yielded) = 3
  /\ pass.yielded = contents

\* C21: enqueue is failure-atomic.  Every enqueue call that does not return
\* true throws nothing and leaves head, tail, size and every link as they
\* were, also when the entry is an object whose link cannot be written (a
\* frozen object); and no enqueue call leaves head or tail changed with
\* size or the entry's link not updated.
C21_EnqueueFailureAtomic ==
  [][last'.op = "enqueue" =>
       /\ ~last'.threw
       /\ ~last'.bool => QueueUnchanged
       /\ (head' # head \/ tail' # tail) =>
            (size' = size + 1 /\ _next'[last'.arg] = Null)]_vars

\* C22: the link state is keyed by the entry's identity.  An object that is
\* not in the queue's chain and has no link of its own, while the object it
\* was created from is a member, is answered as a non-member: has false,
\* getNext null, delete false with the queue unchanged; and, the tail being
\* writable, enqueue accepts it.
C22_KeyedByIdentity ==
  [][\A e \in Objects :
       (/\ Proto(e) # Null
        /\ _next[e] = Absent
        /\ e \notin Range(contents)
        /\ Proto(e) \in Range(contents))
       => /\ Calls("has", e) => ~last'.bool
          /\ Calls("getNext", e) => last'.val = Null
          /\ Calls("delete", e) => (~last'.bool /\ QueueUnchanged)
          /\ (Calls("enqueue", e) /\ e \notin Frozen /\ tail \notin Frozen)
               => (last'.bool /\ ~last'.threw)]_vars

contentsPlain == walk(other.link, other.head)

\* C26 as the claim states it: the plain variant does not reject an entry
\* that is already a member; its enqueue accepts it, returning true and
\* counting it.
C26_PlainAcceptsDuplicate ==
  [][\A e \in Objects :
       (Calls("enqueue", e) /\ e \in Range(contentsPlain)
          /\ plain_has(other, e).ret)
       => (plain_enqueue(other, e).ret /\ other'.size = other.size + 1)]_vars

\* C26, amended: the plain variant rejects an entry that is already a
\* member: its enqueue returns false, throws nothing and leaves the queue
\* as it was.
C26_PlainRejectsDuplicate ==
  [][\A e \in Objects :
       (Calls("enqueue", e) /\ plain_has(other, e).ret)
       => /\ ~plain_enqueue(other, e).ret
          /\ ~plain_enqueue(other, e).threw
          /\ other' = other]_vars

\* C26 witness: enqueue("a") has just been called on a plain queue holding
\* "a" and "b", and the queue is as it was.
C26_Witness ==
  /\ last.op = "enqueue" /\ last.arg = "a" /\ ~last.bool
  /\ contentsPlain = <<"a", "b">>
  /\ other.size = 2
  /\ walk(before.link, before.head) = <<"a", "b">>

\* C27: the plain variant is a behavioural subset of the full one.  The
\* same has, getNext, enqueue, dequeue, clear and toArray calls made on
\* both give the same results, and head, tail and size agree after every
\* call.
C27_PlainAgreesWithFull ==
  [][/\ \A e \in Values :
          /\ Calls("has", e) =>
               (last'.bool = plain_has(other, e).ret
                  /\ last'.threw = plain_has(other, e).threw)
          /\ Calls("getNext", e) =>
               (last'.val = plain_getNext(other, e).ret
                  /\ last'.threw = plain_getNext(other, e).threw)
          /\ Calls("enqueue", e) =>
               (last'.bool = plain_enqueue(other, e).ret
                  /\ last'.threw = plain_enqueue(other, e).threw)
     /\ last'.op = "dequeue" =>
          (last'.val = plain_dequeue(other).ret
             /\ last'.threw = plain_dequeue(other).threw)
     /\ last'.op = "clear" => last'.threw = plain_clear(other).threw
     /\ last'.op = "toArray" => last'.arr = plain_toArray(other).ret
     /\ head' = other'.head
     /\ tail' = other'.tail
     /\ size' = other'.size]_vars

\* C23: a pass interleaved with re-insertion can go on for ever.  When the
\* pass is over a queue of at least two entries and the caller deletes each
\* yielded entry and enqueues it again before it resumes the pass, the
\* pass never finishes: every resumption yields one more entry.
C23_ReinsertNeverFinishes ==
  [][/\ iter'.pc # "done"
     /\ last'.op = "next" => (~last'.bool /\ last'.val \in Objects)]_vars

\* C23 witness: the pass over a queue of two entries has yielded MaxYield
\* entries, more than the queue has, each re-inserted since, and is still
\* not finished.
C23_Witness ==
  /\ iter.pc = "suspended"
  /\ size = 2 /\ Len(contents) = 2
  /\ Len(pass.yielded) = MaxYield
  /\ last.op = "enqueue" /\ last.bool /\ last.arg = yieldedLast

\* The call before the pending resumption removed the entry the pass
\* yielded last.
RemovedYielded ==
  /\ iter.pc = "suspended"
  /\ last.op \in {"dequeue", "delete", "clear"}
  /\ yieldedLast \in Range(contentsBefore)
  /\ yieldedLast \notin Range(contents)

\* C24 as the claim states it: when the entry yielded last was removed
\* before the pass resumes, the pass finds no successor and yields none of
\* the members that followed that entry.
C24_StopsAfterRemoval ==
  [][(last'.op = "next" /\ RemovedYielded) => last'.bool]_vars

\* C24, amended: the pass keeps the successor it read before the yield.
\* When the entry yielded last was removed before the pass resumes, the
\* pass resumes with the successor that entry had when it was yielded: it
\* yields that successor, or finishes when there was none.
C24_ResumesAtSavedSuccessor ==
  [][(last'.op = "next" /\ RemovedYielded) =>
       LET s == Get(before.link, yieldedLast)
       IN  IF Truthy(s)
           THEN ~last'.bool /\ last'.val = s
                  /\ pass'.yielded = Append(pass.yielded, s)
           ELSE last'.bool /\ iter'.pc = "done"]_vars

\* C24 witness: "a" was yielded and then removed from a queue of three
\* entries, the pass was resumed and has yielded "b", the entry that
\* followed "a".
C24_Witness ==
  /\ last.op = "next" /\ ~last.bool /\ last.val = "b"
  /\ pass.yielded = <<"a", "b">>
  /\ pass.mutated
  /\ "a" \notin Range(contents)
  /\ Len(contents) = 2 /\ contents[1] = "b"

\* C28: draining while iterating.  When the caller calls dequeue once after
\* every yield and changes the queue in no other way, every yield is the
\* oldest entry still in the queue, every dequeue returns the entry just
\* yielded, and the pass finishes exactly when no entry is left, with head
\* and tail null and size 0; so the pass yields every member once, in FIFO
\* order.
C28_DrainWhileIterating ==
  [][/\ (last'.op = "next" /\ ~last'.bool) =>
          (order # <<>> /\ last'.val = Head(order) /\ last'.val = head)
     /\ (last'.op = "next" /\ last'.bool) =>
          (order = <<>> /\ head = Null /\ tail = Null /\ size = 0)
     /\ (last'.op = "dequeue" /\ iter.pc = "suspended") =>
          (~last'.threw /\ last'.val = last.val)]_vars

\* The structural invariants of a queue q: head, tail and size agree, and
\* the chain from head holds size distinct entries and ends in tail, whose
\* link is null.
Structural(q) ==
  LET chain == walk(q.link, q.head)
  IN  /\ (q.head = Null) <=> (q.tail = Null)
      /\ (q.tail = Null) <=> (q.size = 0)
      /\ q.size >= 0
      /\ Len(chain) = q.size
      /\ \A i, j \in DOMAIN chain : i # j => chain[i] # chain[j]
      /\ q.size > 0 => (chain[q.size] = q.tail /\ q.link[q.tail] = Null)

\* The number of elements a producer hands over before it first fails, and
\* the whole length when it never fails.
Consumed(does) ==
  IF \E i \in DOMAIN does : does[i] = "throw"
  THEN (CHOOSE i \in DOMAIN does :
          does[i] = "throw" /\ \A j \in 1..(i - 1) : does[j] # "throw") - 1
  ELSE Len(does)

\* C25: enqueueMany is not atomic.  When the input fails after k elements,
\* or is abandoned because an enqueue failed, the entries accepted among
\* the elements consumed are in the queue behind the earlier ones, in input
\* order, no later element is enqueued, and the structural invariants
\* hold.
C25_PartialEnqueueMany ==
  [][(/\ last'.op = "enqueueMany.lazy"
      /\ last'.threw
      /\ \A i \in DOMAIN last'.arr : last'.arr[i] # "dequeue")
     => LET k == Consumed(last'.arr)
        IN  /\ contentsAfter =
                 contents \o accepted(Queue, SubSeq(last'.args, 1, k), 1)
            /\ Structural(QueueAfter)]_vars

\* The elements of a lazily produced input for which enqueue returns true,
\* each enqueue taken in the state the elements before it have left.
Accepts(q, entries, does) ==
  {k \in 1..Consumed(does) :
     LET p == enqueueManyLazy(q, SubSeq(entries, 1, k - 1),
                              SubSeq(does, 1, k - 1))
         d == IF does[k] = "dequeue" THEN dequeue(p.q) ELSE p
     IN  ~p.threw /\ ~d.threw /\ enqueue(d.q, entries[k]).ret}

\* C29: enqueueMany over an input produced while it runs, the producer
\* calling dequeue on the same queue in between.  The call throws only when
\* the producer does, the structural invariants hold after every element,
\* and the count returned is the number of elements for which enqueue
\* returned true.  queue.enqueueMany(queue) returns 0, throws nothing and
\* leaves the queue unchanged.
C29_LazyEnqueueMany ==
  [][/\ last'.op = "enqueueMany.lazy" =>
          /\ last'.threw => "throw" \in Range(last'.arr)
          /\ \A k \in 0..Len(last'.args) :
               Structural(enqueueManyLazy(Queue, SubSeq(last'.args, 1, k),
                                          SubSeq(last'.arr, 1, k)).q)
          /\ ~last'.threw =>
               last'.num = Cardinality(Accepts(Queue, last'.args, last'.arr))
     /\ last'.op = "enqueueMany.own" =>
          (~last'.threw /\ last'.num = 0 /\ QueueUnchanged)]_vars

====
